---- MODULE Spec2Model ----
(***************************************************************************)
(* Model of the 8-puzzle solver: Board.py (puzzle state, successor         *)
(* generation, heuristics) and Search.py (Uniform Cost Search and A* over  *)
(* a heapq frontier).                                                      *)
(*                                                                         *)
(* Conventions.  A board is a sequence of rows, as the Python list of      *)
(* lists; rows and columns are numbered from 0 as in the source, so cell   *)
(* (r, c) of s is s[r+1][c+1].  Board objects live in the arena `boards`   *)
(* and are referred to by their index (identity); None is index 0.         *)
(* Sets and dict keys of Board objects are keyed by board contents, as     *)
(* Board.__eq__ / Board.__hash__ define.                                   *)
(***************************************************************************)
EXTENDS Integers, Sequences, FiniteSets, TLC

VARIABLES
    pc,                    \* position of the program
    algorithm,             \* Search.algorithm
    heuristic,             \* Search.heuristic
    initial_state,         \* Search.initial_state
    max_queue_size,        \* Search.max_queue_size
    depth,                 \* Search.depth
    count_nodes_expanded,  \* Search.count_nodes_expanded
    boards,                \* every Board object constructed so far
    nodes,                 \* the heapq list `nodes` of uc_search / astar_search
    visited,               \* the set `visited` of uc_search / astar_search
    g_x,                   \* the dict `g_x` of astar_search
    final_node,            \* the value returned by uc_search / astar_search
    self,                  \* the Board object the Board-level calls act on
    size,                  \* the argument of Board.get_board_size, once called
    first_visited,         \* history: the visited argument of the first
                           \* generate_children call on self
    peak,                  \* history: largest len(nodes) seen so far
    popped                 \* history: number of heappop calls so far

vars == <<pc, algorithm, heuristic, initial_state, max_queue_size, depth,
          count_nodes_expanded, boards, nodes, visited, g_x, final_node,
          self, size, first_visited, peak, popped>>

\* what the search program never touches
callVars == <<size, first_visited>>

searchVars == <<algorithm, heuristic, initial_state, max_queue_size, depth,
                count_nodes_expanded, nodes, visited, g_x, final_node,
                peak, popped>>

-----------------------------------------------------------------------------
(* Constants of the program *)

None == 0

UNIFORM_COST == 0
A_STAR == 1

MISPLACED_TILE == 0
MANHATTAN_DISTANCE == 1

NOT_COMPUTED == -1

INFINITE_COST == 100000000

final == << <<1, 2, 3>>, <<4, 5, 6>>, <<7, 8, 0>> >>

-----------------------------------------------------------------------------
(* Bounds of the model *)

\* initial boards are at most this many blank moves away from a seed board
MaxScramble == 4

\* unsolvable initial boards are at most this many blank moves away from
\* their seed board
MaxTwist == 2

\* a search run is followed for at most this many loop iterations
MaxExpand == 80

\* the Board-level calls follow parent chains of at most this many links
MaxWalk == 2

\* the boards the heuristics are called on are at most this many blank moves
\* away from a seed board
MaxShuffle == 5

\* a Board's valid_positions is scanned again only while it holds at most
\* this many entries
MaxPositions == 2

\* shortest ways to the goal are looked for up to this many moves
DepthLimit == 11

\* get_board_size is called with dimensions up to this one
MaxDimension == 4

-----------------------------------------------------------------------------
(* Board.py *)

At(s, r, c) == s[r + 1][c + 1]

abs(x) == IF x < 0 THEN -x ELSE x

range(lo, hi) == [k \in 1..(IF hi > lo THEN hi - lo ELSE 0) |-> lo + k - 1]

\* The loop of __init__ keeps the last cell holding 0 in row-major order, and
\* leaves (-1, -1) when no cell holds 0.
empty_position(state) ==
    LET n == Len(state)
        zeros == {p \in (0..n-1) \X (0..n-1) : At(state, p[1], p[2]) = 0}
    IN  IF zeros = {} THEN <<-1, -1>>
        ELSE CHOOSE p \in zeros :
                \A q \in zeros : q[1] * n + q[2] <= p[1] * n + p[2]

Board_init(state, parent) ==
    [ state           |-> state,
      children        |-> <<>>,
      board_size      |-> Len(state),
      parent          |-> parent,
      m_dist          |-> NOT_COMPUTED,
      m_tile_count    |-> NOT_COMPUTED,
      cost            |-> 0,
      depth           |-> 0,
      empty_row       |-> empty_position(state)[1],
      empty_col       |-> empty_position(state)[2],
      valid_positions |-> <<>> ]

\* Board.__eq__
Board_eq(a, b) == a.state = b.state

\* Board.__lt__
Board_lt(a, b) ==
    IF a.cost = b.cost /\ a.state = b.state
    THEN a.depth < b.depth
    ELSE a.cost < b.cost

\* The positions get_surrounding_valid_positions appends, in scan order.
surrounding_scan(b) ==
    LET rows == SelectSeq(range(b.empty_row - 1, b.empty_row + 2),
                          LAMBDA i : ~(i < 0 \/ i >= b.board_size))
        cols == SelectSeq(range(b.empty_col - 1, b.empty_col + 2),
                          LAMBDA j : ~(j < 0 \/ j >= b.board_size))
        cells == [k \in 1..(Len(rows) * Len(cols)) |->
                    << rows[((k - 1) \div Len(cols)) + 1],
                       cols[((k - 1) % Len(cols)) + 1] >>]
    IN  SelectSeq(cells,
                  LAMBDA p : (b.empty_row = p[1]) # (b.empty_col = p[2]))

\* get_surrounding_valid_positions: the Board after the call (the call returns
\* its valid_positions).
get_surrounding_valid_positions(b) ==
    [b EXCEPT !.valid_positions = @ \o surrounding_scan(b)]

\* Lines 107-110: the deep copy with the blank and the tile at (row, col) swapped.
swapped(b, row, col) ==
    [b.state EXCEPT ![b.empty_row + 1][b.empty_col + 1] = At(b.state, row, col),
                    ![row + 1][col + 1] = 0]

\* the child linked to the parent of its maker instead of its maker
new_child_of_grandparent(arena, id, b) ==
    [Board_init(b, arena[id].parent) EXCEPT !.depth = 1 + arena[id].depth]

\* Lines 115-116: the child Board made for board b by object `id`.
new_child(arena, id, b) ==
    [Board_init(b, id) EXCEPT !.depth = 1 + arena[id].depth]

\* Lines 117-119: `filter` is "visited is not None" and `seen` holds the board
\* contents of the members of visited.
found_in(filter, seen, child) ==
    IF filter THEN child.state \in seen ELSE FALSE

\* The loop of generate_children over valid_positions[k..]: `arena` is the
\* arena so far, with the children of object `id` appended as they are kept.
RECURSIVE children_loop(_, _, _, _, _)
children_loop(arena, id, k, filter, seen) ==
    LET me == arena[id]
    IN  IF k > Len(me.valid_positions) THEN arena
        ELSE
          LET position == me.valid_positions[k]
              b == swapped(me, position[1], position[2])
              child == new_child(arena, id, b)
              found == found_in(filter, seen, child)
          IN  IF me.parent # None /\ arena[me.parent].state = b
              THEN children_loop(arena, id, k + 1, filter, seen)
              ELSE IF ~found
              THEN children_loop(
                     Append([arena EXCEPT ![id].children =
                                              Append(@, Len(arena) + 1)],
                            child),
                     id, k + 1, filter, seen)
              ELSE children_loop(arena, id, k + 1, filter, seen)

\* the swaps done on the grid of the Board itself instead of a copy: its
\* board ends as the board of its last child
generate_children_shared_grid(arena, id, filter, seen) ==
    IF Len(arena[id].children) # 0 THEN arena
    ELSE LET out == children_loop(
                      [arena EXCEPT ![id] = get_surrounding_valid_positions(@)],
                      id, 1, filter, seen)
             kids == out[id].children
         IN  IF kids = <<>> THEN out
             ELSE [out EXCEPT ![id].state = out[kids[Len(kids)]].state]

\* generate_children(visited) on object `id`: the arena after the call (the
\* call returns arena[id].children).  `filter` is "visited is not None" and
\* `seen` the board contents of the members of visited.
generate_children(arena, id, filter, seen) ==
    IF Len(arena[id].children) # 0 THEN arena
    ELSE children_loop(
           [arena EXCEPT ![id] = get_surrounding_valid_positions(@)],
           id, 1, filter, seen)

is_final_state(b) == b.state = final

\* the count taken against the goal board read column by column
misplaced_count_transposed(b) ==
    Cardinality({p \in (0..b.board_size-1) \X (0..b.board_size-1) :
                    /\ At(b.state, p[1], p[2]) # 0
                    /\ At(b.state, p[1], p[2]) # At(final, p[2], p[1])})

\* The count the loops of misplaced_tile compute.
misplaced_count(b) ==
    Cardinality({p \in (0..b.board_size-1) \X (0..b.board_size-1) :
                    /\ At(b.state, p[1], p[2]) # 0
                    /\ At(b.state, p[1], p[2]) # At(final, p[1], p[2])})

\* misplaced_tile: the Board after the call; the call returns its m_tile_count.
misplaced_tile(b) ==
    IF b.m_tile_count # NOT_COMPUTED THEN b
    ELSE [b EXCEPT !.m_tile_count = misplaced_count(b)]

\* the goal row of a tile at the end of a row taken one too low
cell_distance_row_off(b, row, col) ==
    LET k == At(b.state, row, col)
        r == k \div b.board_size
        c == IF k % b.board_size = 0
             THEN b.board_size - 1
             ELSE (k % b.board_size) - 1
    IN  IF k = 0 THEN 0 ELSE abs(r - row) + abs(c - col)

\* the distance between the rows alone
cell_distance_rows_only(b, row, col) ==
    LET k == At(b.state, row, col)
        r == IF k % b.board_size = 0
             THEN (k \div b.board_size) - 1
             ELSE k \div b.board_size
    IN  IF k = 0 THEN 0 ELSE abs(r - row)

\* Lines 167-179: what one cell adds to m_dist.
cell_distance(b, row, col) ==
    LET k == At(b.state, row, col)
        r == IF k % b.board_size = 0
             THEN (k \div b.board_size) - 1
             ELSE k \div b.board_size
        c == IF k % b.board_size = 0
             THEN b.board_size - 1
             ELSE (k % b.board_size) - 1
    IN  IF k = 0 THEN 0 ELSE abs(r - row) + abs(c - col)

RECURSIVE distance_loop(_, _)
distance_loop(b, i) ==
    IF i >= b.board_size * b.board_size THEN 0
    ELSE cell_distance(b, i \div b.board_size, i % b.board_size)
         + distance_loop(b, i + 1)

\* manhattan_distance: the Board after the call; the call returns its m_dist.
manhattan_distance(b) ==
    IF b.m_dist # NOT_COMPUTED THEN b
    ELSE [b EXCEPT !.m_dist = distance_loop(b, 0)]

\* Board.get_cost(board)
RECURSIVE get_cost(_, _)
get_cost(arena, id) ==
    IF id = None THEN 0 ELSE 1 + get_cost(arena, arena[id].parent)

\* Board.get_board_size(size) called with an int while the goal grid is
\* `goal`: `for i in size` (line 245) raises TypeError, an int not being
\* iterable, before line 247 writes any cell.  `raised` tells that the call
\* left through the exception and `final` is the goal grid it leaves.
get_board_size(goal, d) == [raised |-> TRUE, final |-> goal]

-----------------------------------------------------------------------------
(* heapq, as Search.py uses it on lists of (cost, Board) tuples *)

\* a < b on two (cost, Board) tuples: the first differing component decides;
\* components are compared with == first (Board.__eq__), then with <.
tuple_lt(arena, a, b) ==
    IF a[1] # b[1] THEN a[1] < b[1]
    ELSE IF ~Board_eq(arena[a[2]], arena[b[2]])
         THEN Board_lt(arena[a[2]], arena[b[2]])
         ELSE FALSE

\* heapq._siftdown(heap, startpos, pos), positions counted from 0
RECURSIVE siftdown(_, _, _, _, _)
siftdown(arena, heap, startpos, pos, newitem) ==
    IF pos > startpos
    THEN LET parentpos == (pos - 1) \div 2
             parent == heap[parentpos + 1]
         IN  IF tuple_lt(arena, newitem, parent)
             THEN siftdown(arena, [heap EXCEPT ![pos + 1] = parent],
                           startpos, parentpos, newitem)
             ELSE [heap EXCEPT ![pos + 1] = newitem]
    ELSE [heap EXCEPT ![pos + 1] = newitem]

\* heapq._siftup(heap, pos): the smaller child is moved up until a leaf is
\* hit, then the item is sifted down from there.
RECURSIVE siftup(_, _, _, _, _)
siftup(arena, heap, startpos, pos, newitem) ==
    LET endpos == Len(heap)
        childpos == 2 * pos + 1
        rightpos == childpos + 1
        pick == IF rightpos < endpos
                   /\ ~tuple_lt(arena, heap[childpos + 1], heap[rightpos + 1])
                THEN rightpos ELSE childpos
    IN  IF childpos < endpos
        THEN siftup(arena, [heap EXCEPT ![pos + 1] = heap[pick + 1]],
                    startpos, pick, newitem)
        ELSE siftdown(arena, [heap EXCEPT ![pos + 1] = newitem],
                      startpos, pos, newitem)

\* heapq.heappush(heap, item): the heap after the call
heappush(arena, heap, item) ==
    siftdown(arena, Append(heap, item), 0, Len(heap), item)

\* heapq.heappop(heap) on a non-empty heap: the item returned and the heap left
heappop(arena, heap) ==
    LET lastelt == heap[Len(heap)]
        rest == SubSeq(heap, 1, Len(heap) - 1)
    IN  IF Len(rest) > 0
        THEN [item |-> heap[1],
              heap |-> siftup(arena, [rest EXCEPT ![1] = lastelt], 0, 0, lastelt)]
        ELSE [item |-> lastelt, heap |-> rest]

-----------------------------------------------------------------------------
(* The sliding-tile move graph, stated directly on boards; used to draw the  *)
(* inputs and to state the properties, never by the program's operators.     *)

Cells(s) == (0..Len(s)-1) \X (0..Len(s)-1)

Adjacent(p, q) == abs(p[1] - q[1]) + abs(p[2] - q[2]) = 1

\* the boards one slide of a tile into the blank away from s
Slides(s) ==
    { [s EXCEPT ![p[1] + 1][p[2] + 1] = At(s, q[1], q[2]),
                ![q[1] + 1][q[2] + 1] = 0] :
        <<p, q>> \in {x \in Cells(s) \X Cells(s) :
                        At(s, x[1][1], x[1][2]) = 0 /\ Adjacent(x[1], x[2])} }

\* the boards at most k slides away from a board of S
RECURSIVE Within(_, _)
Within(S, k) ==
    IF k = 0 THEN S ELSE Within(S \cup UNION {Slides(s) : s \in S}, k - 1)

\* the least number of slides from board s to board t, or -1 if more than k
RECURSIVE Distance(_, _, _, _)
Distance(S, t, n, k) ==
    IF t \in S THEN n
    ELSE IF n >= k THEN -1
    ELSE Distance(S \cup UNION {Slides(s) : s \in S}, t, n + 1, k)

\* 3x3 boards from which the goal cannot be reached differ from the goal by
\* an odd permutation of the tiles once the blank is brought home
unsolvable3 == << <<1, 2, 3>>, <<4, 5, 6>>, <<8, 7, 0>> >>

\* 2x2 boards: they never equal the 3x3 goal, and their move graph has two
\* components of twelve boards each
small_a == << <<1, 2>>, <<3, 0>> >>
small_b == << <<2, 1>>, <<3, 0>> >>

SolvableBoards == Within({final}, MaxScramble)
UnsolvableBoards == Within({unsolvable3}, MaxTwist)
SmallBoards == Within({small_a, small_b}, MaxScramble)

\* two boards eight moves from the goal on which A* reaches a board a second
\* time along a shorter path
hard_a == << <<0, 4, 3>>, <<2, 1, 5>>, <<7, 8, 6>> >>
hard_b == << <<1, 2, 3>>, <<8, 7, 5>>, <<0, 4, 6>> >>

\* a board eleven moves from the goal on which A* with the misplaced-tile
\* heuristic pops a node whose board has meanwhile got a lower cost
stale_a == << <<1, 0, 5>>, <<4, 6, 2>>, <<7, 3, 8>> >>

InitialBoards ==
    SolvableBoards \cup UnsolvableBoards \cup SmallBoards
        \cup {hard_a, hard_b, stale_a}

\* constructor arguments: the valid codes and one invalid code each
Algorithms == {UNIFORM_COST, A_STAR, 2}
Heuristics == {MISPLACED_TILE, MANHATTAN_DISTANCE, 2}

\* Uniform Cost Search ignores the heuristic: with a heuristic other than the
\* first it is run on the boards near the goal only
Inputs ==
    {x \in Algorithms \X Heuristics \X InitialBoards :
        x[1] = UNIFORM_COST /\ x[2] # MISPLACED_TILE => x[3] \in SolvableBoards}

-----------------------------------------------------------------------------
(* Search.py *)

\* get_heuristic_cost(node): the value returned
heuristic_cost(arena, heur, id) ==
    IF id = None THEN 0
    ELSE IF heur = MANHATTAN_DISTANCE THEN manhattan_distance(arena[id]).m_dist
    ELSE IF heur = MISPLACED_TILE THEN misplaced_tile(arena[id]).m_tile_count
    ELSE 0

\* get_heuristic_cost(node): the arena after the call (the memo it fills)
get_heuristic_cost(arena, heur, id) ==
    IF id = None THEN arena
    ELSE IF heur = MANHATTAN_DISTANCE
         THEN [arena EXCEPT ![id] = manhattan_distance(@)]
    ELSE IF heur = MISPLACED_TILE
         THEN [arena EXCEPT ![id] = misplaced_tile(@)]
    ELSE arena

\* the heuristic checked whatever the algorithm
invalid_configuration_any_algorithm(alg, heur) ==
    \/ alg # A_STAR /\ alg # UNIFORM_COST
    \/ heur # MANHATTAN_DISTANCE /\ heur # MISPLACED_TILE

\* Search.__init__: the two exit(-1) conditions
invalid_configuration(alg, heur) ==
    \/ alg # A_STAR /\ alg # UNIFORM_COST
    \/ alg = A_STAR /\ (heur # MANHATTAN_DISTANCE /\ heur # MISPLACED_TILE)

\* the children pushed at the cost of their parent
RECURSIVE uc_push_children_same_cost(_, _, _, _, _)
uc_push_children_same_cost(arena, heap, children, k, cost) ==
    IF k > Len(children) THEN heap
    ELSE uc_push_children_same_cost(arena,
                                    heappush(arena, heap, <<cost, children[k]>>),
                                    children, k + 1, cost)

\* the for loop of uc_search over children[k..]
RECURSIVE uc_push_children(_, _, _, _, _)
uc_push_children(arena, heap, children, k, cost) ==
    IF k > Len(children) THEN heap
    ELSE uc_push_children(arena,
                          heappush(arena, heap, <<1 + cost, children[k]>>),
                          children, k + 1, cost)

\* the priority that forgets the cost of the way so far
total_cost_heuristic_only(h_x, g) == h_x

\* Line 156: f(x) = h(x) + g(x)
total_cost(h_x, g) == h_x + g

\* the child given the cost of the popped node, the move to it not counted
astar_child_move_not_counted(st, heur, b, child) ==
    LET key == st.arena[child].state
        child_g_x == st.g_x[st.arena[b].state]
        g1 == IF key \in DOMAIN st.g_x THEN st.g_x
              ELSE st.g_x @@ (key :> INFINITE_COST)
    IN  IF child_g_x < g1[key]
        THEN LET g2 == [g1 EXCEPT ![key] = child_g_x]
                 h_x == heuristic_cost(st.arena, heur, child)
                 arena2 == get_heuristic_cost(st.arena, heur, child)
                 child_total_cost == total_cost(h_x, g2[key])
                 n == <<child_total_cost, key>>
             IN  IF n \notin st.visited
                 THEN [arena   |-> arena2,
                       nodes   |-> heappush(arena2, st.nodes,
                                            <<child_total_cost, child>>),
                       g_x     |-> g2,
                       visited |-> st.visited \cup {n}]
                 ELSE [st EXCEPT !.arena = arena2, !.g_x = g2]
        ELSE [st EXCEPT !.g_x = g1]

\* the body of the for loop of astar_search for one child
astar_child(st, heur, b, child) ==
    LET key == st.arena[child].state
        child_g_x == 1 + st.g_x[st.arena[b].state]
        g1 == IF key \in DOMAIN st.g_x THEN st.g_x
              ELSE st.g_x @@ (key :> INFINITE_COST)
    IN  IF child_g_x < g1[key]
        THEN LET g2 == [g1 EXCEPT ![key] = child_g_x]
                 h_x == heuristic_cost(st.arena, heur, child)
                 arena2 == get_heuristic_cost(st.arena, heur, child)
                 child_total_cost == total_cost(h_x, g2[key])
                 n == <<child_total_cost, key>>
             IN  IF n \notin st.visited
                 THEN [arena   |-> arena2,
                       nodes   |-> heappush(arena2, st.nodes,
                                            <<child_total_cost, child>>),
                       g_x     |-> g2,
                       visited |-> st.visited \cup {n}]
                 ELSE [st EXCEPT !.arena = arena2, !.g_x = g2]
        ELSE [st EXCEPT !.g_x = g1]

\* the for loop of astar_search over children[k..]
RECURSIVE astar_push_children(_, _, _, _, _)
astar_push_children(st, heur, b, children, k) ==
    IF k > Len(children) THEN st
    ELSE astar_push_children(astar_child(st, heur, b, children[k]),
                             heur, b, children, k + 1)

Max(a, b) == IF a > b THEN a ELSE b

-----------------------------------------------------------------------------
(* The search program: Search(algorithm, heuristic, initial_state).search() *)

\* Before construction; algorithm, heuristic and initial_state hold the
\* arguments the constructor is called with.
Init ==
    /\ pc = "new"
    /\ \E x \in Inputs :
          /\ algorithm = x[1]
          /\ heuristic = x[2]
          /\ initial_state = x[3]
    /\ max_queue_size = 0
    /\ depth = 0
    /\ count_nodes_expanded = 0
    /\ boards = <<>>
    /\ nodes = <<>>
    /\ visited = {}
    /\ g_x = [s \in {} |-> 0]
    /\ final_node = None
    /\ self = None
    /\ size = None
    /\ first_visited = <<>>
    /\ peak = 0
    /\ popped = 0

\* Search.__init__ leaving through exit(-1)
Search_init_exit ==
    /\ pc = "new"
    /\ invalid_configuration(algorithm, heuristic)
    /\ pc' = "exited"
    /\ UNCHANGED <<callVars, searchVars, boards, self>>

\* Search.__init__ running to its end
Search_init ==
    /\ pc = "new"
    /\ ~invalid_configuration(algorithm, heuristic)
    /\ pc' = "constructed"
    /\ max_queue_size' = 0
    /\ depth' = 0
    /\ count_nodes_expanded' = 0
    /\ UNCHANGED <<callVars, algorithm, heuristic, initial_state, boards, nodes, visited,
                   g_x, final_node, self, peak, popped>>

\* search() up to the loop of uc_search: counters reset, frontier seeded
search_uc ==
    /\ pc = "constructed"
    /\ algorithm = UNIFORM_COST
    /\ max_queue_size' = 0
    /\ depth' = 0
    /\ count_nodes_expanded' = 0
    /\ boards' = <<Board_init(initial_state, None)>>
    /\ nodes' = heappush(boards', <<>>, <<0, 1>>)
    /\ visited' = {}
    /\ peak' = Len(nodes')
    /\ pc' = "uc_search"
    /\ UNCHANGED <<callVars, algorithm, heuristic, initial_state, g_x, final_node, self,
                   popped>>

\* search() up to the loop of astar_search
search_astar ==
    /\ pc = "constructed"
    /\ algorithm = A_STAR
    /\ max_queue_size' = 0
    /\ depth' = 0
    /\ count_nodes_expanded' = 0
    /\ boards' = <<Board_init(initial_state, None)>>
    /\ g_x' = (initial_state :> 0)
    /\ visited' = {}
    /\ nodes' = heappush(boards', <<>>, <<0, 1>>)
    /\ peak' = Len(nodes')
    /\ pc' = "astar_search"
    /\ UNCHANGED <<callVars, algorithm, heuristic, initial_state, final_node, self, popped>>

\* uc_search counting the node before testing it for the goal
uc_return_counted ==
    /\ pc = "uc_search"
    /\ Len(nodes) > 0
    /\ LET top == heappop(boards, nodes)
       IN  /\ is_final_state(boards[top.item[2]])
           /\ nodes' = top.heap
           /\ final_node' = top.item[2]
    /\ count_nodes_expanded' = count_nodes_expanded + 1
    /\ popped' = popped + 1
    /\ pc' = "returned"
    /\ UNCHANGED <<callVars, algorithm, heuristic, initial_state, max_queue_size, depth,
                   boards, visited, g_x, self, peak>>

\* uc_search: an iteration that pops the goal and returns it
uc_return ==
    /\ pc = "uc_search"
    /\ Len(nodes) > 0
    /\ LET top == heappop(boards, nodes)
       IN  /\ is_final_state(boards[top.item[2]])
           /\ nodes' = top.heap
           /\ final_node' = top.item[2]
    /\ popped' = popped + 1
    /\ pc' = "returned"
    /\ UNCHANGED <<callVars, algorithm, heuristic, initial_state, max_queue_size, depth,
                   count_nodes_expanded, boards, visited, g_x, self, peak>>

\* uc_search: an iteration that expands the popped node
uc_expand ==
    /\ pc = "uc_search"
    /\ Len(nodes) > 0
    /\ count_nodes_expanded < MaxExpand
    /\ LET top == heappop(boards, nodes)
           cost == top.item[1]
           b == top.item[2]
       IN  /\ ~is_final_state(boards[b])
           /\ visited' = visited \cup {boards[b].state}
           /\ boards' = generate_children(boards, b, TRUE, visited')
           /\ nodes' = uc_push_children(boards', top.heap,
                                        boards'[b].children, 1, cost)
    /\ count_nodes_expanded' = count_nodes_expanded + 1
    /\ max_queue_size' = Max(max_queue_size, Len(nodes'))
    /\ peak' = Max(peak, Len(nodes'))
    /\ popped' = popped + 1
    /\ UNCHANGED <<callVars, pc, algorithm, heuristic, initial_state, depth, g_x,
                   final_node, self>>

\* uc_search: the loop ends on an empty frontier, None is returned
uc_exhausted ==
    /\ pc = "uc_search"
    /\ Len(nodes) = 0
    /\ final_node' = None
    /\ pc' = "returned"
    /\ UNCHANGED <<callVars, algorithm, heuristic, initial_state, max_queue_size, depth,
                   count_nodes_expanded, boards, nodes, visited, g_x, self,
                   peak, popped>>

\* astar_search: an iteration that pops the goal and returns it
astar_return ==
    /\ pc = "astar_search"
    /\ Len(nodes) > 0
    /\ LET top == heappop(boards, nodes)
       IN  /\ is_final_state(boards[top.item[2]])
           /\ nodes' = top.heap
           /\ final_node' = top.item[2]
    /\ popped' = popped + 1
    /\ pc' = "returned"
    /\ UNCHANGED <<callVars, algorithm, heuristic, initial_state, max_queue_size, depth,
                   count_nodes_expanded, boards, visited, g_x, self, peak>>

\* astar_search: an iteration that expands the popped node
astar_expand ==
    /\ pc = "astar_search"
    /\ Len(nodes) > 0
    /\ count_nodes_expanded < MaxExpand
    /\ LET top == heappop(boards, nodes)
           b == top.item[2]
           arena1 == generate_children(boards, b, FALSE, {})
           st == astar_push_children(
                   [arena |-> arena1, nodes |-> top.heap, g_x |-> g_x,
                    visited |-> visited],
                   heuristic, b, arena1[b].children, 1)
       IN  /\ ~is_final_state(boards[b])
           /\ boards' = st.arena
           /\ nodes' = st.nodes
           /\ g_x' = st.g_x
           /\ visited' = st.visited
    /\ count_nodes_expanded' = count_nodes_expanded + 1
    /\ max_queue_size' = Max(max_queue_size, Len(nodes'))
    /\ peak' = Max(peak, Len(nodes'))
    /\ popped' = popped + 1
    /\ UNCHANGED <<callVars, pc, algorithm, heuristic, initial_state, depth, final_node,
                   self>>

\* astar_search: the loop ends on an empty frontier, None is returned
astar_exhausted ==
    /\ pc = "astar_search"
    /\ Len(nodes) = 0
    /\ final_node' = None
    /\ pc' = "returned"
    /\ UNCHANGED <<callVars, algorithm, heuristic, initial_state, max_queue_size, depth,
                   count_nodes_expanded, boards, nodes, visited, g_x, self,
                   peak, popped>>

\* the rest of search(): print_search_stats(final_node), then return
print_search_stats ==
    /\ pc = "returned"
    /\ depth' = IF final_node = None THEN depth
                ELSE get_cost(boards, boards[final_node].parent)
    /\ pc' = "done"
    /\ UNCHANGED <<callVars, algorithm, heuristic, initial_state, max_queue_size,
                   count_nodes_expanded, boards, nodes, visited, g_x,
                   final_node, self, peak, popped>>

Next ==
    \/ Search_init_exit
    \/ Search_init
    \/ search_uc
    \/ search_astar
    \/ uc_return
    \/ uc_expand
    \/ uc_exhausted
    \/ astar_return
    \/ astar_expand
    \/ astar_exhausted
    \/ print_search_stats

Spec == Init /\ [][Next]_vars

-----------------------------------------------------------------------------
(* Successor generation called on its own: a Board is constructed, with or   *)
(* without a parent, or is a child handed out by generate_children(None),    *)
(* and the caller calls generate_children and                                *)
(* get_surrounding_valid_positions on it in any order.                       *)

shifted3 == << <<0, 1, 2>>, <<3, 4, 5>>, <<6, 7, 8>> >>
reversed3 == << <<8, 7, 6>>, <<5, 4, 3>>, <<2, 1, 0>> >>

RootBoards == Within({final, shifted3, small_a}, MaxWalk)

\* the board of a parent handed to the constructor: the same board, or an
\* unrelated board of the same size
TestParents(s) ==
    {s} \cup (IF Len(s) = Len(final) THEN {reversed3} ELSE {small_b})

\* the <<arena, object>> pairs got from those of S by generate_children(None)
\* on the object and the choice of one of the children returned
Handed(S) ==
    UNION { LET arena == generate_children(x[1], x[2], FALSE, {})
            IN  {<<arena, arena[x[2]].children[k]>> :
                    k \in 1..Len(arena[x[2]].children)} : x \in S }

RECURSIVE Descend(_, _)
Descend(S, k) == IF k = 0 THEN S ELSE Descend(S \cup Handed(S), k - 1)

BoardInputs ==
    Descend({<<<<Board_init(s, None)>>, 1>> : s \in RootBoards}
              \cup UNION {{<<<<Board_init(p, None), Board_init(s, 1)>>, 2>> :
                              p \in TestParents(s)} : s \in RootBoards},
            MaxWalk)

InitBoard ==
    /\ pc = "board"
    /\ algorithm = UNIFORM_COST
    /\ heuristic = MISPLACED_TILE
    /\ \E x \in BoardInputs :
          /\ boards = x[1]
          /\ self = x[2]
          /\ initial_state = x[1][1].state
    /\ max_queue_size = 0
    /\ depth = 0
    /\ count_nodes_expanded = 0
    /\ nodes = <<>>
    /\ visited = {}
    /\ g_x = [s \in {} |-> 0]
    /\ final_node = None
    /\ size = None
    /\ first_visited = <<>>
    /\ peak = 0
    /\ popped = 0

\* self.generate_children(None)
call_generate_children ==
    /\ pc = "board"
    /\ \/ Len(boards[self].children) # 0
       \/ Len(boards[self].valid_positions) <= MaxPositions
    /\ boards' = generate_children(boards, self, FALSE, {})
    /\ first_visited' = IF first_visited = <<>> THEN <<FALSE, {}>>
                        ELSE first_visited
    /\ UNCHANGED <<size, pc, searchVars, self>>

\* self.generate_children(visited) with a set of Boards
call_generate_children_visited ==
    /\ pc = "board"
    /\ \/ Len(boards[self].children) # 0
       \/ Len(boards[self].valid_positions) <= MaxPositions
    /\ \E seen \in {{}, Slides(boards[self].state)}
                     \cup {{s} : s \in Slides(boards[self].state)} :
          /\ boards' = generate_children(boards, self, TRUE, seen)
          /\ first_visited' = IF first_visited = <<>> THEN <<TRUE, seen>>
                              ELSE first_visited
    /\ UNCHANGED <<size, pc, searchVars, self>>

\* self.get_surrounding_valid_positions()
call_get_surrounding_valid_positions ==
    /\ pc = "board"
    /\ Len(boards[self].valid_positions) <= MaxPositions
    /\ boards' = [boards EXCEPT ![self] = get_surrounding_valid_positions(@)]
    /\ UNCHANGED <<callVars, pc, searchVars, self>>

\* the dimensions get_board_size is called with
Dimensions == 1..MaxDimension

\* Board.get_board_size(d); the exception it raises is caught nowhere
call_get_board_size ==
    /\ pc = "board"
    /\ size = None
    /\ \E d \in Dimensions :
          /\ size' = d
          /\ pc' = IF get_board_size(final, d).raised
                   THEN "raised" ELSE "board"
    /\ UNCHANGED <<first_visited, searchVars, boards, self>>

NextBoard ==
    \/ call_generate_children
    \/ call_generate_children_visited
    \/ call_get_surrounding_valid_positions
    \/ call_get_board_size

SpecBoard == InitBoard /\ [][NextBoard]_vars

-----------------------------------------------------------------------------
(* The heuristics called on their own: a Board is constructed and            *)
(* misplaced_tile and manhattan_distance are called on it in any order.      *)

HeuristicBoards ==
    Within({final, unsolvable3, shifted3, reversed3, small_a, small_b},
           MaxShuffle)

InitHeuristic ==
    /\ pc = "heuristic"
    /\ algorithm = A_STAR
    /\ heuristic \in {MISPLACED_TILE, MANHATTAN_DISTANCE}
    /\ initial_state \in HeuristicBoards
    /\ boards = <<Board_init(initial_state, None)>>
    /\ self = 1
    /\ max_queue_size = 0
    /\ depth = 0
    /\ count_nodes_expanded = 0
    /\ nodes = <<>>
    /\ visited = {}
    /\ g_x = [s \in {} |-> 0]
    /\ final_node = None
    /\ size = None
    /\ first_visited = <<>>
    /\ peak = 0
    /\ popped = 0

\* self.misplaced_tile()
call_misplaced_tile ==
    /\ pc = "heuristic"
    /\ boards' = [boards EXCEPT ![self] = misplaced_tile(@)]
    /\ UNCHANGED <<callVars, pc, searchVars, self>>

\* self.manhattan_distance()
call_manhattan_distance ==
    /\ pc = "heuristic"
    /\ boards' = [boards EXCEPT ![self] = manhattan_distance(@)]
    /\ UNCHANGED <<callVars, pc, searchVars, self>>

\* Search.get_heuristic_cost(self) with the configured heuristic
call_get_heuristic_cost ==
    /\ pc = "heuristic"
    /\ boards' = get_heuristic_cost(boards, heuristic, self)
    /\ UNCHANGED <<callVars, pc, searchVars, self>>

NextHeuristic ==
    \/ call_misplaced_tile
    \/ call_manhattan_distance
    \/ call_get_heuristic_cost

SpecHeuristic == InitHeuristic /\ [][NextHeuristic]_vars

-----------------------------------------------------------------------------
(* Properties *)

\* the boards from the root down to object `id`: the parent links followed
\* from `id` to the root, reversed
RECURSIVE PathTo(_, _)
PathTo(arena, id) ==
    IF id = None THEN <<>>
    ELSE Append(PathTo(arena, arena[id].parent), arena[id].state)

\* the least number of blank moves from s to the goal board, -1 if there is
\* no way of at most DepthLimit moves
MinimalDepth(s) == Distance({s}, final, 0, DepthLimit)

\* C1: for a solvable 3x3 initial board, search() with Uniform Cost, with
\* A* + misplaced tile and with A* + Manhattan distance ends with a goal node
\* and reports as solution depth the least number of blank moves from the
\* initial board to the goal board, hence the same depth under all three.
C1_MinimalDepth ==
    (pc = "done" /\ Len(initial_state) = Len(final)
        /\ MinimalDepth(initial_state) # -1)
    => (final_node # None /\ depth = MinimalDepth(initial_state))

C1_Witness ==
    /\ pc = "done"
    /\ algorithm = A_STAR
    /\ heuristic = MISPLACED_TILE
    /\ initial_state = hard_b
    /\ final_node # None
    /\ depth = 8

\* C2: a node returned by uc_search or astar_search holds the goal board, and
\* the boards on its parent chain, read from the root, start at the initial
\* board, end at the goal board, and each differs from the one before by one
\* slide of an orthogonally adjacent tile into the blank.
C2_PathIsValid ==
    final_node # None =>
        LET path == PathTo(boards, final_node)
        IN  /\ boards[final_node].state = final
            /\ path[1] = initial_state
            /\ path[Len(path)] = final
            /\ \A i \in 1..(Len(path) - 1) : path[i + 1] \in Slides(path[i])

C2_Witness ==
    /\ final_node # None
    /\ algorithm = UNIFORM_COST
    /\ Len(PathTo(boards, final_node)) = 4


\* C4: the number of nodes expanded is the number of nodes popped from the
\* frontier that were not returned as the goal; a search started on the goal
\* board ends with solution depth 0 and 0 nodes expanded.
C4_GoalPopNotCounted ==
    /\ count_nodes_expanded
         = popped - (IF final_node # None THEN 1 ELSE 0)
    /\ (pc = "done" /\ initial_state = final) =>
          (final_node # None /\ depth = 0 /\ count_nodes_expanded = 0)

C4_Witness ==
    /\ pc = "done"
    /\ final_node # None
    /\ algorithm = UNIFORM_COST
    /\ popped = 17
    /\ count_nodes_expanded = 16

\* C5: the max queue size reported at the end of search() is the largest
\* number of entries the frontier held at any point of the run, the moment
\* right after the root is pushed included.
C5_MaxQueueIsPeak == pc = "done" => max_queue_size = peak


\* the children of object `id` hold exactly the boards one slide away from
\* its board, the board of its parent left out, each once, and are linked
\* to it one level deeper
ChildrenAreTheSlides(arena, id) ==
    LET me == arena[id]
        kids == me.children
        expected == Slides(me.state)
                      \ (IF me.parent = None THEN {}
                         ELSE {arena[me.parent].state})
    IN  /\ {arena[kids[k]].state : k \in 1..Len(kids)} = expected
        /\ Len(kids) = Cardinality(expected)
        /\ \A k \in 1..Len(kids) :
              /\ arena[kids[k]].parent = id
              /\ arena[kids[k]].depth = me.depth + 1

\* C6: the first call generate_children(None) on a Board, whatever its
\* parent, returns one child for every board one orthogonal slide away from
\* its board except the board of its parent, no board twice; every child has
\* the Board as parent and its depth plus one as depth.  The step is the
\* first call of generate_children on the Board when first_visited goes from
\* empty to the argument None.
C6_FirstChildren ==
    [][ (first_visited = <<>> /\ first_visited' = <<FALSE, {}>>)
        => ChildrenAreTheSlides(boards', self) ]_vars

\* C7: on a 3x3 board holding 0..8, misplaced_tile() returns 0 exactly when
\* the board is the goal board, and so does manhattan_distance().
C7_ZeroIffGoal ==
    LET b == boards[self]
    IN  (pc = "heuristic" /\ b.board_size = Len(final)) =>
          /\ b.m_tile_count # NOT_COMPUTED =>
                (b.m_tile_count = 0 <=> is_final_state(b))
          /\ b.m_dist # NOT_COMPUTED =>
                (b.m_dist = 0 <=> is_final_state(b))

C7_Witness ==
    /\ pc = "heuristic"
    /\ is_final_state(boards[self])
    /\ boards[self].m_tile_count = 0
    /\ boards[self].m_dist = 0

RECURSIVE SumCells(_, _)
SumCells(s, S) ==
    IF S = {} THEN 0
    ELSE LET p == CHOOSE x \in S : TRUE
             k == At(s, p[1], p[2])
             d == Len(s)
         IN  (IF k = 0 THEN 0
              ELSE abs(p[1] - ((k - 1) \div d)) + abs(p[2] - ((k - 1) % d)))
             + SumCells(s, S \ {p})

\* C8: manhattan_distance() is the sum, over the cells (row, col) holding a
\* value k other than 0, of |row - (k-1) div d| + |col - (k-1) mod d|, d
\* being the dimension of the board.
C8_ManhattanSum ==
    LET b == boards[self]
    IN  (pc = "heuristic" /\ b.m_dist # NOT_COMPUTED) =>
            b.m_dist = SumCells(b.state, Cells(b.state))

C8_Witness ==
    /\ pc = "heuristic"
    /\ boards[self].state = reversed3
    /\ boards[self].m_dist = 16

\* C9: on every 3x3 board manhattan_distance() is at least misplaced_tile().
C9_ManhattanAtLeastMisplaced ==
    LET b == boards[self]
    IN  (/\ pc = "heuristic"
         /\ b.board_size = Len(final)
         /\ b.m_dist # NOT_COMPUTED
         /\ b.m_tile_count # NOT_COMPUTED)
        => b.m_dist >= b.m_tile_count

C9_Witness ==
    /\ pc = "heuristic"
    /\ boards[self].board_size = Len(final)
    /\ boards[self].m_tile_count = 3
    /\ boards[self].m_dist = 3

\* C10: Search(algorithm, heuristic, initial_state) leaves through exit(-1),
\* with no search work done, exactly when the algorithm is neither Uniform
\* Cost nor A*, or it is A* and the heuristic is neither misplaced tile nor
\* Manhattan distance; with Uniform Cost every heuristic is accepted.
C10_ExitIffInvalid ==
    pc # "new" /\ pc # "board" /\ pc # "heuristic" =>
        /\ pc = "exited" <=>
              \/ algorithm \notin {UNIFORM_COST, A_STAR}
              \/ /\ algorithm = A_STAR
                 /\ heuristic \notin {MISPLACED_TILE, MANHATTAN_DISTANCE}
        /\ pc = "exited" =>
              (boards = <<>> /\ nodes = <<>> /\ popped = 0 /\ peak = 0)

C10_Witness ==
    /\ pc = "exited"
    /\ algorithm = A_STAR
    /\ heuristic \notin {MISPLACED_TILE, MANHATTAN_DISTANCE}

\* the goal grid of dimension d: cell (i, j) holds i*d + j + 1
GoalGrid(d) == [i \in 1..d |-> [j \in 1..d |-> (i - 1) * d + (j - 1) + 1]]

\* C11: a call Board.get_board_size(d) with a dimension d completes normally
\* and leaves the shared goal grid with cell (i, j) equal to i*d + j + 1 for
\* all 0 <= i, j < d.
C11_GoalGridInitialised ==
    size # None =>
        /\ pc # "raised"
        /\ get_board_size(final, size).final = GoalGrid(size)

\* the Board objects generate_children has scanned the neighbours of: in a
\* search run, the nodes popped and expanded so far
Expanded(arena) ==
    {id \in 1..Len(arena) : arena[id].valid_positions # <<>>}

\* C12: during a run of uc_search no two popped-and-expanded nodes hold the
\* same board: each board is expanded at most once.
C12_ExpandedOnce ==
    (algorithm = UNIFORM_COST /\ pc \in {"uc_search", "returned", "done"}) =>
        \A a, b \in Expanded(boards) :
            a # b => boards[a].state # boards[b].state

\* C13: once generate_children has been called on a Board, a further call
\* with the visited argument of the first call leaves every field of the
\* Board (children, valid_positions, board) as it is and so returns the list
\* the first call returned, also when that list was empty.
C13_Memoized ==
    [][ (/\ first_visited # <<>>
         /\ boards' = generate_children(boards, self, first_visited[1],
                                        first_visited[2]))
        => boards' = boards ]_vars

\* the cells above, left of, right of and below the blank of b, in this
\* order, those outside the grid left out
Neighbours(b) ==
    SelectSeq(<< <<b.empty_row - 1, b.empty_col>>,
                 <<b.empty_row, b.empty_col - 1>>,
                 <<b.empty_row, b.empty_col + 1>>,
                 <<b.empty_row + 1, b.empty_col>> >>,
              LAMBDA p : /\ p[1] >= 0 /\ p[1] < b.board_size
                         /\ p[2] >= 0 /\ p[2] < b.board_size)

\* C14: the list a call of get_surrounding_valid_positions returns (the
\* Board's valid_positions after the call) holds exactly the in-bounds
\* orthogonal neighbours of the blank, each once, in the order up, left,
\* right, down: 2 in a corner, 3 on an edge, 4 inside.
C14_NeighboursOnce ==
    LET b == boards[self]
    IN  b.valid_positions # <<>> => b.valid_positions = Neighbours(b)

\* the number of parent links from object `id` back to the root
Links(arena, id) == get_cost(arena, arena[id].parent)

\* C15: in uc_search the frontier is seeded with (0, root); every entry
\* (cost, state) on the frontier has cost = state.depth = the number of
\* parent links from state to the root; and the entries an iteration pushes
\* are the children of the popped node at its popped cost plus one.
C15_CostIsDepth ==
    /\ [](algorithm = UNIFORM_COST =>
            \A i \in 1..Len(nodes) :
                /\ nodes[i][1] = boards[nodes[i][2]].depth
                /\ nodes[i][1] = Links(boards, nodes[i][2]))
    /\ [][ /\ (pc = "constructed" /\ pc' = "uc_search") =>
                nodes' = << <<0, 1>> >>
           /\ (pc = "uc_search" /\ pc' = "uc_search") =>
                LET top == heappop(boards, nodes)
                IN  \A i \in 1..Len(nodes') :
                        nodes'[i][2] > Len(boards) =>
                            /\ nodes'[i][1] = top.item[1] + 1
                            /\ boards'[nodes'[i][2]].parent = top.item[2] ]_vars

C15_Witness ==
    /\ pc = "uc_search"
    /\ Cardinality({nodes[i][1] : i \in 1..Len(nodes)}) = 2
    /\ \E i \in 1..Len(nodes) :
          /\ nodes[i][1] = 5
          /\ boards[nodes[i][2]].depth = 5
          /\ Links(boards, nodes[i][2]) = 5

\* the node an iteration of the loop pops
Popped == heappop(boards, nodes).item

\* the entries an iteration of the loop has pushed: their nodes are the
\* Board objects made in this iteration
Pushed(heap, arena) == {i \in 1..Len(heap) : heap[i][2] > Len(arena)}

\* a node that was expanded after another node with the same board and a
\* smaller depth (whose children are older) had been: when it was popped the
\* best-known cost of its board was below its own depth
StaleExpanded(arena) ==
    {b \in 1..Len(arena) :
        /\ arena[b].children # <<>>
        /\ \E a \in 1..Len(arena) :
              /\ arena[a].state = arena[b].state
              /\ arena[a].depth < arena[b].depth
              /\ arena[a].children # <<>>
              /\ arena[a].children[1] < arena[b].children[1]}

\* C16: in astar_search every successor pushed has priority h(successor) + g'
\* where g' is the best-known cost of the popped node's board plus one, and
\* g' is the successor's depth, the number of parent links from it to the
\* root; a popped node whose depth exceeds the best-known cost of its board
\* pushes nothing; the goal node returned was queued under a g equal to the
\* length of its parent chain, which is the depth reported.
C16_PushedAtDepth ==
    /\ [][ (pc = "astar_search" /\ pc' = "astar_search") =>
             LET b == Popped[2]
                 g == g_x[boards[b].state] + 1
             IN  /\ \A i \in Pushed(nodes', boards) :
                        LET child == nodes'[i][2]
                        IN  /\ nodes'[i][1]
                                 = heuristic_cost(boards', heuristic, child) + g
                            /\ g = boards'[child].depth
                            /\ g = Links(boards', child)
                 /\ boards[b].depth > g_x[boards[b].state] =>
                        Pushed(nodes', boards) = {} ]_vars
    /\ [][ (pc = "astar_search" /\ pc' = "returned" /\ final_node' # None) =>
             Popped[1] - heuristic_cost(boards, heuristic, Popped[2])
                 = Links(boards, Popped[2]) ]_vars
    /\ []((pc = "done" /\ algorithm = A_STAR /\ final_node # None) =>
             depth = g_x[boards[final_node].state])

C16_Witness ==
    /\ pc = "done"
    /\ algorithm = A_STAR
    /\ final_node # None
    /\ StaleExpanded(boards) # {}
    /\ depth = 11

\* the boards for which the step records a best-known cost for the first
\* time or lowers the one recorded
Relaxed == {k \in DOMAIN g_x' : k \notin DOMAIN g_x \/ g_x'[k] < g_x[k]}

\* C17: in astar_search the pushed-set test never holds back a push: when
\* the best-known cost of a board is lowered (or first recorded), the pair
\* (f', board) is not in the pushed set and an entry (f', node) is pushed
\* whose node holds that board at that cost, one push for every board relaxed; and no (f, board) pair
\* is pushed twice in a run: the pushes so far (the entries popped and those
\* on the frontier) are as many as the pairs recorded, the seed included.
C17_NeverSuppressed ==
    /\ [][ (pc = "astar_search" /\ pc' = "astar_search") =>
             /\ \A k \in Relaxed :
                    \E i \in Pushed(nodes', boards) :
                        /\ boards'[nodes'[i][2]].state = k
                        /\ boards'[nodes'[i][2]].depth = g_x'[k]
                        /\ <<nodes'[i][1], k>> \notin visited
                        /\ <<nodes'[i][1], k>> \in visited'
             /\ Cardinality(Relaxed) = Cardinality(Pushed(nodes', boards))
             /\ Cardinality(visited') - Cardinality(visited)
                    = Cardinality(Pushed(nodes', boards)) ]_vars
    /\ []((algorithm = A_STAR /\ pc \in {"astar_search", "returned", "done"}) =>
             popped + Len(nodes)
                 = Cardinality(visited \cup {<<0, initial_state>>}))

C17_Witness ==
    /\ algorithm = A_STAR
    /\ pc = "done"
    /\ \E x \in visited : \E y \in visited : x[2] = y[2] /\ x[1] < y[1]

\* C18: every Board made during a search, the root and every successor under
\* either algorithm, has its depth field equal to its cost field, and both
\* equal to the number of moves from the root along its parent chain.
C18_DepthIsCost ==
    pc \in {"uc_search", "astar_search", "returned", "done"} =>
        \A id \in 1..Len(boards) :
            /\ boards[id].depth = boards[id].cost
            /\ boards[id].depth = Links(boards, id)

\* C19: no step of a search changes the board, the blank coordinates or the
\* parent of a Board already constructed, nor the caller's initial board,
\* which the root holds; the goal board is written by no step (it is the
\* constant `final`); and every Board has the blank at
\* (empty_row, empty_col).
C19_BoardsUntouched ==
    /\ [][ /\ initial_state' = initial_state
           /\ Len(boards') >= Len(boards)
           /\ \A id \in 1..Len(boards) :
                 /\ boards'[id].state = boards[id].state
                 /\ boards'[id].empty_row = boards[id].empty_row
                 /\ boards'[id].empty_col = boards[id].empty_col
                 /\ boards'[id].parent = boards[id].parent ]_vars
    /\ [](/\ boards # <<>> => boards[1].state = initial_state
          /\ \A id \in 1..Len(boards) :
                At(boards[id].state, boards[id].empty_row,
                   boards[id].empty_col) = 0)

C19_Witness ==
    /\ pc = "done"
    /\ algorithm = A_STAR
    /\ heuristic = MANHATTAN_DISTANCE
    /\ final_node # None
    /\ count_nodes_expanded >= 10
    /\ boards[1].state = initial_state
    /\ boards[1].children # <<>>
    /\ \E id \in 1..Len(boards) :
          /\ boards[id].m_dist # NOT_COMPUTED
          /\ boards[id].children # <<>>
          /\ boards[id].parent # None

====
